---- MODULE Spec2Model ----
(***************************************************************************)
(* Model of the shopping chatbot of src/main.py (class ChatBot).            *)
(*                                                                         *)
(* Text is modelled character by character: a message, a pattern, a        *)
(* product name and a button callback are sequences of one-character       *)
(* strings, so that "pattern in message", startswith, split, lower, strip  *)
(* and int() are computed as Python computes them.  The letter n-tilde is  *)
(* the single character "n~" ("N~" in upper case).  Response texts are     *)
(* strings built with \o; the non-ASCII glyphs of the source (emoji,       *)
(* accents, inverted question marks) are written in ASCII.  Prices are     *)
(* integer cents; "{:.2f}" renders them with two decimals.                 *)
(***************************************************************************)
EXTENDS Integers, Sequences, FiniteSets, TLC

----------------------------------------------------------------------------
(* Bounds of the model *)

\* the user ids that call the bot; Spec has one caller, SpecTwo has both
Users == {"u1", "u2"}

OneUser == {"u1"}

\* Spec: largest number of entries in the cart
MaxCart == 3

\* SpecTwo: largest number of cart entries held by the two sessions together
MaxItems == 2

----------------------------------------------------------------------------
(* Python string primitives *)

None == << >>

Some(x) == << x >>

UpperChars == <<"A", "B", "C", "D", "E", "F", "G", "H", "I", "J", "K", "L", "M", "N", "O", "P", "Q", "R", "S", "T", "U", "V", "W", "X", "Y", "Z", "N~">>

LowerChars == <<"a", "b", "c", "d", "e", "f", "g", "h", "i", "j", "k", "l", "m", "n", "o", "p", "q", "r", "s", "t", "u", "v", "w", "x", "y", "z", "n~">>

DigitChars == <<"0", "1", "2", "3", "4", "5", "6", "7", "8", "9">>

Whitespace == {" ", "\t", "\n"}

IndexIn(c, seq) == CHOOSE i \in 1..Len(seq) : seq[i] = c

InSeq(c, seq) == \E i \in 1..Len(seq) : seq[i] = c

\* str.lower()
LowerChar(c) == IF InSeq(c, UpperChars) THEN LowerChars[IndexIn(c, UpperChars)] ELSE c

Lower(s) == [i \in 1..Len(s) |-> LowerChar(s[i])]

RECURSIVE LStrip(_)
LStrip(s) == IF s # << >> /\ Head(s) \in Whitespace THEN LStrip(Tail(s)) ELSE s

RECURSIVE RStrip(_)
RStrip(s) == IF s # << >> /\ s[Len(s)] \in Whitespace THEN RStrip(SubSeq(s, 1, Len(s) - 1)) ELSE s

\* str.strip()
Strip(s) == RStrip(LStrip(s))

\* str.startswith(prefix)
StartsWith(s, prefix) == Len(s) >= Len(prefix) /\ SubSeq(s, 1, Len(prefix)) = prefix

\* "pat in s"
Contains(pat, s) == \E i \in 1..(Len(s) - Len(pat) + 1) : SubSeq(s, i, i + Len(pat) - 1) = pat

\* s.split("_")[-1]: the part after the last underscore (all of s when it has none)
LastSegment(s) ==
    LET us == {i \in 1..Len(s) : s[i] = "_"}
    IN  IF us = {} THEN s
        ELSE SubSeq(s, (CHOOSE i \in us : \A j \in us : j <= i) + 1, Len(s))

IsDigits(s) == s # << >> /\ \A i \in 1..Len(s) : InSeq(s[i], DigitChars)

RECURSIVE DigitsValue(_)
DigitsValue(s) ==
    IF s = << >> THEN 0
    ELSE 10 * DigitsValue(SubSeq(s, 1, Len(s) - 1)) + (IndexIn(s[Len(s)], DigitChars) - 1)

\* int(s): surrounding whitespace is ignored, one sign is accepted, the rest
\* must be decimal digits; anything else raises ValueError (ok = FALSE)
ParseInt(s) ==
    LET t == Strip(s)
        signed == t # << >> /\ Head(t) \in {"+", "-"}
        body == IF signed THEN Tail(t) ELSE t
    IN  IF IsDigits(body)
        THEN [ok |-> TRUE, val |-> IF signed /\ Head(t) = "-" THEN 0 - DigitsValue(body) ELSE DigitsValue(body)]
        ELSE [ok |-> FALSE, val |-> 0]

RECURSIVE NatChars(_)
NatChars(n) == IF n < 10 THEN << DigitChars[n + 1] >> ELSE NatChars(n \div 10) \o << DigitChars[(n % 10) + 1] >>

\* str(n) of an int, as characters
IntChars(n) == IF n < 0 THEN << "-" >> \o NatChars(0 - n) ELSE NatChars(n)

\* the string made of the characters of s
RECURSIVE Text(_)
Text(s) == IF s = << >> THEN "" ELSE Head(s) \o Text(Tail(s))

\* f"{x:.2f}" of a non-negative amount held in cents
Fmt2(cents) == ToString(cents \div 100) \o "." \o ToString((cents % 100) \div 10) \o ToString(cents % 10)

----------------------------------------------------------------------------
(* Catalog *)

AVAILABLE_PRODUCTS == <<
    [id |-> 1, name |-> <<"L", "a", "p", "t", "o", "p">>,   price |-> 99999],
    [id |-> 2, name |-> <<"M", "o", "u", "s", "e">>,    price |-> 2999],
    [id |-> 3, name |-> <<"K", "e", "y", "b", "o", "a", "r", "d">>, price |-> 7999],
    [id |-> 4, name |-> <<"M", "o", "n", "i", "t", "o", "r">>,  price |-> 29999] >>

Catalog == {AVAILABLE_PRODUCTS[i] : i \in 1..Len(AVAILABLE_PRODUCTS)}

RECURSIVE find_by_id_from(_, _)
find_by_id_from(i, product_id) ==
    IF i > Len(AVAILABLE_PRODUCTS) THEN None
    ELSE IF AVAILABLE_PRODUCTS[i].id = product_id THEN Some(AVAILABLE_PRODUCTS[i])
    ELSE find_by_id_from(i + 1, product_id)

\* the product id taken as a position in the 0-based list
find_product_by_id_as_index(product_id) == find_by_id_from(1, product_id + 1)

find_product_by_id(product_id) == find_by_id_from(1, product_id)

RECURSIVE find_by_name_from(_, _)
find_by_name_from(i, query) ==
    IF i > Len(AVAILABLE_PRODUCTS) THEN None
    ELSE IF Contains(Lower(AVAILABLE_PRODUCTS[i].name), Lower(query)) THEN Some(AVAILABLE_PRODUCTS[i])
    ELSE find_by_name_from(i + 1, query)

\* the catalog is scanned from its end
find_product_by_name_last(query) ==
    LET hits == {i \in 1..Len(AVAILABLE_PRODUCTS) :
                    Contains(Lower(AVAILABLE_PRODUCTS[i].name), Lower(query))}
    IN  IF hits = {} THEN None
        ELSE Some(AVAILABLE_PRODUCTS[CHOOSE i \in hits : \A j \in hits : j <= i])

\* the product returned carries the name as it was matched, in lower case
find_product_by_name_lowered(query) ==
    LET found == find_by_name_from(1, query)
    IN  IF found = None THEN None ELSE Some([found[1] EXCEPT !.name = Lower(@)])

\* the catalog name is compared without lowering it
find_product_by_name_case_sensitive(query) ==
    LET hits == {i \in 1..Len(AVAILABLE_PRODUCTS) :
                    Contains(AVAILABLE_PRODUCTS[i].name, Lower(query))}
    IN  IF hits = {} THEN None
        ELSE Some(AVAILABLE_PRODUCTS[CHOOSE i \in hits : \A j \in hits : i <= j])

find_product_by_name(query) == find_by_name_from(1, query)

----------------------------------------------------------------------------
(* Intent predicates *)

add_patterns == <<
    <<"a", "g", "r", "e", "g", "a", "r", " ", "a", "l", " ", "c", "a", "r", "r", "i", "t", "o">>,
    <<"a", "d", "d", " ", "t", "o", " ", "c", "a", "r", "t">>,
    <<"a", "n~", "a", "d", "i", "r", " ", "a", "l", " ", "c", "a", "r", "r", "i", "t", "o">>,
    <<"a", "g", "r", "e", "g", "a", "r">>,
    <<"a", "n~", "a", "d", "i", "r">> >>

cart_patterns == << <<"c", "a", "r", "r", "i", "t", "o">>, <<"c", "a", "r", "t">>, <<"v", "e", "r", " ", "c", "a", "r", "r", "i", "t", "o">>, <<"v", "i", "e", "w", " ", "c", "a", "r", "t">> >>

is_add_to_cart_intent(message) ==
    \E i \in 1..Len(add_patterns) : Contains(add_patterns[i], message)

is_product_search(message) ==
    \E i \in 1..Len(AVAILABLE_PRODUCTS) : Contains(Lower(AVAILABLE_PRODUCTS[i].name), message)

\* only the Spanish phrases are tested
is_view_cart_intent_spanish(message) ==
    \E i \in {1, 3} : Contains(cart_patterns[i], message)

is_view_cart_intent(message) ==
    \E i \in 1..Len(cart_patterns) : Contains(cart_patterns[i], message)

----------------------------------------------------------------------------
(* Responses *)

Button(text, callback) == [text |-> text, callback |-> callback]

BTN_BROWSE == <<"b", "t", "n", "_", "b", "r", "o", "w", "s", "e">>

BTN_VIEW_CART == <<"b", "t", "n", "_", "v", "i", "e", "w", "_", "c", "a", "r", "t">>

BTN_CLEAR_CART == <<"b", "t", "n", "_", "c", "l", "e", "a", "r", "_", "c", "a", "r", "t">>

BTN_CHECKOUT == <<"b", "t", "n", "_", "c", "h", "e", "c", "k", "o", "u", "t">>

BTN_ADD_PREFIX == <<"b", "t", "n", "_", "a", "d", "d", "_">>

BTN_PREFIX == <<"b", "t", "n", "_">>

NotUnderstood == [response |-> "No entiendo. Puedes ser mas especifico?"]

NoProductSelected ==
    [response |-> "[x] No hay producto seleccionado. Por favor, elige un producto primero.",
     buttons |-> << Button("Ver productos", BTN_BROWSE) >>]

AddedResponse(product) ==
    [response |-> "[ok] " \o Text(product.name) \o " agregado al carrito correctamente!",
     buttons |-> << Button("Ver carrito", BTN_VIEW_CART),
                    Button("Continuar comprando", BTN_BROWSE) >>]

EmptyCartResponse ==
    [response |-> "[cart] Tu carrito esta vacio\nQuieres ver nuestros productos?",
     buttons |-> << Button("Ver productos", BTN_BROWSE) >>]

ProductDetail(product) ==
    [response |-> "[item] " \o Text(product.name) \o " - $" \o Fmt2(product.price) \o "\nTe interesa?",
     buttons |-> << Button("Agregar al carrito", BTN_ADD_PREFIX \o IntChars(product.id)),
                    Button("Ver mas productos", BTN_BROWSE) >>]

ProductNotFound ==
    [response |-> "[x] Producto no encontrado. Quieres ver todos los productos disponibles?",
     buttons |-> << Button("Ver productos", BTN_BROWSE) >>]

ButtonError == [response |-> "[x] Error en el boton. Intenta de nuevo."]

ButtonNotRecognized == [response |-> "[x] Boton no reconocido"]

CartCleared ==
    [response |-> "[cart] Carrito vacio correctamente.",
     buttons |-> << Button("Ver productos", BTN_BROWSE) >>]

CheckoutEmpty ==
    [response |-> "[x] No puedes proceder al pago con un carrito vacio.",
     buttons |-> << Button("Ver productos", BTN_BROWSE) >>]

CheckoutDone(total) ==
    [response |-> "[ok] Compra realizada exitosamente!\nTotal pagado: $" \o Fmt2(total) \o "\nGracias por tu compra!",
     buttons |-> << Button("Comprar mas", BTN_BROWSE) >>]

----------------------------------------------------------------------------
(* ChatBot: every method maps the sessions dictionary and its arguments to  *)
(* the dictionary after the call (s) and the value returned (r).            *)

NewSession == [cart |-> << >>, last_product |-> None, state |-> "browsing"]

NoSessions == [u \in {} |-> NewSession]

Result(s, r) == [s |-> s, r |-> r]

\* the session is initialised at every call
get_or_create_session_reset(sessions0, user_id) ==
    [u \in DOMAIN sessions0 \cup {user_id} |->
        IF u = user_id THEN NewSession ELSE sessions0[u]]

\* a new session starts from the session of a user already known
get_or_create_session_shared(sessions0, user_id) ==
    IF user_id \in DOMAIN sessions0 THEN sessions0
    ELSE [u \in DOMAIN sessions0 \cup {user_id} |->
             IF u # user_id THEN sessions0[u]
             ELSE IF DOMAIN sessions0 = {} THEN NewSession
             ELSE sessions0[CHOOSE v \in DOMAIN sessions0 : TRUE]]

get_or_create_session(sessions0, user_id) ==
    IF user_id \in DOMAIN sessions0 THEN sessions0
    ELSE [u \in DOMAIN sessions0 \cup {user_id} |->
             IF u = user_id THEN NewSession ELSE sessions0[u]]

find_last_selected_product(sessions0, user_id) ==
    LET s == get_or_create_session(sessions0, user_id)
    IN  Result(s, s[user_id].last_product)

\* "if product_id:" is false for None and for 0
Truthy(product_id) == product_id # None /\ product_id[1] # 0

\* the product added is not recorded as last_product
add_product_to_cart_no_select(sessions0, user_id, product_id) ==
    LET s == get_or_create_session(sessions0, user_id)
        product == IF Truthy(product_id)
                   THEN find_product_by_id(product_id[1])
                   ELSE find_last_selected_product(s, user_id).r
    IN  IF product = None
        THEN Result(s, NoProductSelected)
        ELSE Result([s EXCEPT ![user_id].cart = Append(@, product[1])],
                    AddedResponse(product[1]))

\* a product already in the cart is not appended again
add_product_to_cart_dedup(sessions0, user_id, product_id) ==
    LET s == get_or_create_session(sessions0, user_id)
        product == IF Truthy(product_id)
                   THEN find_product_by_id(product_id[1])
                   ELSE find_last_selected_product(s, user_id).r
    IN  IF product = None
        THEN Result(s, NoProductSelected)
        ELSE IF \E k \in 1..Len(s[user_id].cart) : s[user_id].cart[k] = product[1]
        THEN Result([s EXCEPT ![user_id].last_product = product], AddedResponse(product[1]))
        ELSE Result([s EXCEPT ![user_id].cart = Append(@, product[1]),
                              ![user_id].last_product = product],
                    AddedResponse(product[1]))

add_product_to_cart(sessions0, user_id, product_id) ==
    LET s == get_or_create_session(sessions0, user_id)
        product == IF Truthy(product_id)
                   THEN find_product_by_id(product_id[1])
                   ELSE find_last_selected_product(s, user_id).r
    IN  IF product = None
        THEN Result(s, NoProductSelected)
        ELSE Result([s EXCEPT ![user_id].cart = Append(@, product[1]),
                              ![user_id].last_product = product],
                    AddedResponse(product[1]))

RECURSIVE SumPrices(_)
SumPrices(cart) == IF cart = << >> THEN 0 ELSE Head(cart).price + SumPrices(Tail(cart))

\* the item_counts dictionary, in insertion order
RECURSIVE group_items(_, _)
group_items(cart, item_counts) ==
    IF cart = << >> THEN item_counts
    ELSE LET item == Head(cart)
             ks == {k \in 1..Len(item_counts) : item_counts[k].name = item.name}
         IN  IF ks # {}
             THEN group_items(Tail(cart),
                      [item_counts EXCEPT ![CHOOSE k \in ks : TRUE].count = @ + 1])
             ELSE group_items(Tail(cart),
                      Append(item_counts, [name |-> item.name, item |-> item, count |-> 1]))

\* the subtotal of a group is its unit price
item_line_unit_price(data) ==
    IF data.count > 1
    THEN "* " \o Text(data.name) \o " x" \o ToString(data.count) \o " - $" \o Fmt2(data.item.price)
    ELSE "* " \o Text(data.name) \o " - $" \o Fmt2(data.item.price)

item_line(data) ==
    IF data.count > 1
    THEN "* " \o Text(data.name) \o " x" \o ToString(data.count) \o " - $" \o Fmt2(data.item.price * data.count)
    ELSE "* " \o Text(data.name) \o " - $" \o Fmt2(data.item.price)

\* "\n".join(lines)
RECURSIVE JoinLines(_)
JoinLines(lines) ==
    IF lines = << >> THEN ""
    ELSE IF Len(lines) = 1 THEN lines[1]
    ELSE lines[1] \o "\n" \o JoinLines(Tail(lines))

CartButtons == << Button("Proceder al pago", BTN_CHECKOUT),
                  Button("Continuar comprando", BTN_BROWSE),
                  Button("Vaciar carrito", BTN_CLEAR_CART) >>

\* showing the cart forgets the selection
send_cart_confirmation_buttons_forgets(sessions0, user_id) ==
    LET s == get_or_create_session(sessions0, user_id)
        shown == [s EXCEPT ![user_id].last_product = None]
        cart == s[user_id].cart
        total_price == SumPrices(cart)
        item_count == Len(cart)
        item_counts == group_items(cart, << >>)
        items_text == [k \in 1..Len(item_counts) |-> item_line(item_counts[k])]
    IN  IF cart = << >>
        THEN Result(shown, EmptyCartResponse)
        ELSE Result(shown, [response |-> "[cart] Tu carrito (" \o ToString(item_count) \o " items):\n"
                                          \o JoinLines(items_text) \o "\n\n* Total: $" \o Fmt2(total_price),
                            buttons |-> CartButtons])

send_cart_confirmation_buttons(sessions0, user_id) ==
    LET s == get_or_create_session(sessions0, user_id)
        cart == s[user_id].cart
        total_price == SumPrices(cart)
        item_count == Len(cart)
        item_counts == group_items(cart, << >>)
        items_text == [k \in 1..Len(item_counts) |-> item_line(item_counts[k])]
    IN  IF cart = << >>
        THEN Result(s, EmptyCartResponse)
        ELSE Result(s, [response |-> "[cart] Tu carrito (" \o ToString(item_count) \o " items):\n"
                                         \o JoinLines(items_text)
                                         \o "\n\nTotal: $" \o Fmt2(total_price),
                        buttons |-> CartButtons])

\* the product found is shown but not recorded as last_product
handle_product_selection_no_record(sessions0, user_id, query) ==
    LET s == get_or_create_session(sessions0, user_id)
        found_product == find_product_by_name(query)
    IN  IF found_product # None
        THEN Result(s, ProductDetail(found_product[1]))
        ELSE Result(s, ProductNotFound)

handle_product_selection(sessions0, user_id, query) ==
    LET s == get_or_create_session(sessions0, user_id)
        found_product == find_product_by_name(query)
    IN  IF found_product # None
        THEN Result([s EXCEPT ![user_id].last_product = found_product],
                    ProductDetail(found_product[1]))
        ELSE Result(s, ProductNotFound)

\* show_products does not touch the sessions
\* the callbacks carry the 0-based position in the list
show_products_zero_based(sessions0, user_id) ==
    Result(sessions0,
           [response |-> "[shop] Productos disponibles:\nHaz clic en un producto para agregarlo al carrito:",
            buttons |-> [i \in 1..Len(AVAILABLE_PRODUCTS) |->
                            Button(Text(AVAILABLE_PRODUCTS[i].name) \o " - $" \o Fmt2(AVAILABLE_PRODUCTS[i].price),
                                   BTN_ADD_PREFIX \o IntChars(i - 1))]])

show_products(sessions0, user_id) ==
    Result(sessions0,
           [response |-> "[shop] Productos disponibles:\nHaz clic en un producto para agregarlo al carrito:",
            buttons |-> [i \in 1..Len(AVAILABLE_PRODUCTS) |->
                            Button(Text(AVAILABLE_PRODUCTS[i].name) \o " - $" \o Fmt2(AVAILABLE_PRODUCTS[i].price),
                                   BTN_ADD_PREFIX \o IntChars(AVAILABLE_PRODUCTS[i].id))]])

\* only the last entry is removed
clear_cart_pops_last(sessions0, user_id) ==
    LET s == get_or_create_session(sessions0, user_id)
    IN  Result([s EXCEPT ![user_id].cart =
                    IF @ = << >> THEN << >> ELSE SubSeq(@, 1, Len(@) - 1)],
               CartCleared)

\* clearing the cart also forgets the selection
clear_cart_resets_selection(sessions0, user_id) ==
    LET s == get_or_create_session(sessions0, user_id)
    IN  Result([s EXCEPT ![user_id].cart = << >>, ![user_id].last_product = None], CartCleared)

clear_cart(sessions0, user_id) ==
    LET s == get_or_create_session(sessions0, user_id)
    IN  Result([s EXCEPT ![user_id].cart = << >>], CartCleared)

\* last_product survives the checkout
process_checkout_keeps_last(sessions0, user_id) ==
    LET s == get_or_create_session(sessions0, user_id)
        cart == s[user_id].cart
        total == SumPrices(cart)
    IN  IF cart = << >>
        THEN Result(s, CheckoutEmpty)
        ELSE Result([s EXCEPT ![user_id].cart = << >>], CheckoutDone(total))

\* the empty-cart test is missing
process_checkout_unguarded(sessions0, user_id) ==
    LET s == get_or_create_session(sessions0, user_id)
        total == SumPrices(s[user_id].cart)
    IN  Result([s EXCEPT ![user_id].cart = << >>, ![user_id].last_product = None],
               CheckoutDone(total))

\* the total is computed after the cart has been emptied
process_checkout_total_after_clear(sessions0, user_id) ==
    LET s == get_or_create_session(sessions0, user_id)
        cart == s[user_id].cart
        cleared == [s EXCEPT ![user_id].cart = << >>, ![user_id].last_product = None]
    IN  IF cart = << >>
        THEN Result(s, CheckoutEmpty)
        ELSE Result(cleared, CheckoutDone(SumPrices(cleared[user_id].cart)))

process_checkout(sessions0, user_id) ==
    LET s == get_or_create_session(sessions0, user_id)
        cart == s[user_id].cart
        total == SumPrices(cart)
    IN  IF cart = << >>
        THEN Result(s, CheckoutEmpty)
        ELSE Result([s EXCEPT ![user_id].cart = << >>, ![user_id].last_product = None],
                    CheckoutDone(total))

handle_button_press(sessions0, user_id, button_data) ==
    LET s == get_or_create_session(sessions0, user_id)
    IN  IF StartsWith(button_data, BTN_ADD_PREFIX)
        THEN LET parsed == ParseInt(LastSegment(button_data))
             IN  IF parsed.ok
                 THEN add_product_to_cart(s, user_id, Some(parsed.val))
                 ELSE Result(s, ButtonError)
        ELSE IF button_data = BTN_VIEW_CART THEN send_cart_confirmation_buttons(s, user_id)
        ELSE IF button_data = BTN_BROWSE THEN show_products(s, user_id)
        ELSE IF button_data = BTN_CLEAR_CART THEN clear_cart(s, user_id)
        ELSE IF button_data = BTN_CHECKOUT THEN process_checkout(s, user_id)
        ELSE Result(s, ButtonNotRecognized)

\* product search is tested before add-to-cart
handle_message_search_first(sessions0, user_id, message) ==
    LET s == get_or_create_session(sessions0, user_id)
        message_lower == Strip(Lower(message))
    IN  IF StartsWith(message, BTN_PREFIX) THEN handle_button_press(s, user_id, message)
        ELSE IF is_product_search(message_lower) THEN handle_product_selection(s, user_id, message_lower)
        ELSE IF is_add_to_cart_intent(message_lower) THEN add_product_to_cart(s, user_id, None)
        ELSE IF is_view_cart_intent(message_lower) THEN send_cart_confirmation_buttons(s, user_id)
        ELSE Result(s, NotUnderstood)

handle_message(sessions0, user_id, message) ==
    LET s == get_or_create_session(sessions0, user_id)
        message_lower == Strip(Lower(message))
    IN  IF StartsWith(message, BTN_PREFIX) THEN handle_button_press(s, user_id, message)
        ELSE IF is_add_to_cart_intent(message_lower) THEN add_product_to_cart(s, user_id, None)
        ELSE IF is_product_search(message_lower) THEN handle_product_selection(s, user_id, message_lower)
        ELSE IF is_view_cart_intent(message_lower) THEN send_cart_confirmation_buttons(s, user_id)
        ELSE Result(s, NotUnderstood)

----------------------------------------------------------------------------
(* Inputs *)

TextMessages == {
    <<"a", "g", "r", "e", "g", "a", "r", " ", "a", "l", " ", "c", "a", "r", "r", "i", "t", "o">>, <<"a", "d", "d", " ", "t", "o", " ", "c", "a", "r", "t">>, <<"a", "n~", "a", "d", "i", "r">>, <<"A", "g", "r", "e", "g", "a", "r", " ", "l", "a", "p", "t", "o", "p">>,
    <<"l", "a", "p", "t", "o", "p">>, <<"M", "o", "u", "s", "e">>, <<"k", "e", "y", "b", "o", "a", "r", "d">>, <<" ", "m", "o", "n", "i", "t", "o", "r", " ">>,
    <<"m", "o", "u", "s", "e", " ", "l", "a", "p", "t", "o", "p">>, <<"m", "o", "u", "s", "e", " ", "c", "a", "r", "r", "i", "t", "o">>,
    <<"c", "a", "r", "r", "i", "t", "o">>, <<"v", "i", "e", "w", " ", "c", "a", "r", "t">>, <<"h", "o", "l", "a">>, <<"B", "T", "N", "_", "B", "R", "O", "W", "S", "E">> }

ButtonMessages == {
    <<"b", "t", "n", "_", "a", "d", "d", "_", "1">>, <<"b", "t", "n", "_", "a", "d", "d", "_", "2">>, <<"b", "t", "n", "_", "a", "d", "d", "_", "3">>, <<"b", "t", "n", "_", "a", "d", "d", "_", "4">>,
    <<"b", "t", "n", "_", "a", "d", "d", "_", "0">>, <<"b", "t", "n", "_", "a", "d", "d", "_", "5">>, <<"b", "t", "n", "_", "a", "d", "d", "_", "-", "1">>,
    <<"b", "t", "n", "_", "a", "d", "d", "_">>, <<"b", "t", "n", "_", "a", "d", "d", "_", "a", "b", "c">>, <<"b", "t", "n", "_", "a", "d", "d", "_", "x", "_", "1">>, <<"b", "t", "n", "_", "a", "d", "d">>,
    <<"b", "t", "n", "_", "v", "i", "e", "w", "_", "c", "a", "r", "t">>, <<"b", "t", "n", "_", "b", "r", "o", "w", "s", "e">>, <<"b", "t", "n", "_", "c", "l", "e", "a", "r", "_", "c", "a", "r", "t">>, <<"b", "t", "n", "_", "c", "h", "e", "c", "k", "o", "u", "t">>,
    <<"b", "t", "n", "_", "i", "n", "v", "a", "l", "i", "d">>, <<"b", "t", "n", "_", "v", "i", "e", "w", "_", "c", "a", "r", "t", " ">> }

Messages == TextMessages \cup ButtonMessages

Queries == { <<"l", "a", "p", "t", "o", "p">>, <<"m", "o", "u", "s", "e", " ", "l", "a", "p", "t", "o", "p">>, <<"h", "o", "l", "a">> }

ProductIds == { None, Some(0), Some(1), Some(2), Some(3), Some(4), Some(5) }

\* the smaller input sets of SpecTwo
MessagesTwo == {
    <<"l", "a", "p", "t", "o", "p">>, <<"M", "o", "u", "s", "e">>, <<"a", "g", "r", "e", "g", "a", "r", " ", "a", "l", " ", "c", "a", "r", "r", "i", "t", "o">>, <<"c", "a", "r", "r", "i", "t", "o">>, <<"h", "o", "l", "a">>,
    <<"b", "t", "n", "_", "a", "d", "d", "_", "1">>, <<"b", "t", "n", "_", "a", "d", "d", "_", "2">>, <<"b", "t", "n", "_", "a", "d", "d", "_", "0">>,
    <<"b", "t", "n", "_", "v", "i", "e", "w", "_", "c", "a", "r", "t">>, <<"b", "t", "n", "_", "b", "r", "o", "w", "s", "e">>, <<"b", "t", "n", "_", "c", "l", "e", "a", "r", "_", "c", "a", "r", "t">>, <<"b", "t", "n", "_", "c", "h", "e", "c", "k", "o", "u", "t">>, <<"b", "t", "n", "_", "i", "n", "v", "a", "l", "i", "d">> }

ButtonMessagesTwo == { <<"b", "t", "n", "_", "a", "d", "d", "_", "4">>, <<"b", "t", "n", "_", "c", "h", "e", "c", "k", "o", "u", "t">> }

QueriesTwo == { <<"k", "e", "y", "b", "o", "a", "r", "d">>, <<"h", "o", "l", "a">> }

ProductIdsTwo == { None, Some(3) }

----------------------------------------------------------------------------
(* State.  The bot is single-threaded: a call runs to its end and returns  *)
(* a value to its caller (main's loop, a test), which takes it before it   *)
(* makes the next call.                                                    *)

VARIABLES
    sessions,   \* ChatBot.sessions: user id -> session
    solo,       \* solo[u]: the sessions of a bot that is given only u's calls
    op,         \* the method that has just returned ("none": no call pending)
    user,       \* its user_id
    msg,        \* its message, button_data or query (<< >> when it takes none)
    pid,        \* its product_id (None when it takes none)
    resp,       \* the value it returned
    pre,        \* ChatBot.sessions when it was called
    interacted, \* the users that have matched a product search or added a product
    named,      \* the users named by a call of a method that takes the session
    paid,       \* the users that have checked out and not selected or added since
    scenario    \* scenario[u]: how far the calls of u follow the shopping sequence

vars == << sessions, solo, op, user, msg, pid, resp, pre, interacted, named, paid, scenario >>

RECURSIVE TotalItems(_)
TotalItems(s) ==
    IF DOMAIN s = {} THEN 0
    ELSE LET u == CHOOSE v \in DOMAIN s : TRUE
         IN  Len(s[u].cart) + TotalItems([w \in DOMAIN s \ {u} |-> s[w]])

\* the call returned the checkout success for the cart that u held
CheckoutSucceeded(s, u, r) ==
    /\ u \in DOMAIN s
    /\ s[u].cart # << >>
    /\ r = CheckoutDone(SumPrices(s[u].cart))

\* The shopping sequence of a new user: search p, add by text, search q,
\* btn_add_<q.id>, view the cart, check out.  stage counts the calls of the
\* user while they are exactly the first calls of the sequence for a p and a
\* q, and is -1 once they are not.
ScenarioStart == [stage |-> 0, p |-> None, q |-> None]

ScenarioOff == [stage |-> -1, p |-> None, q |-> None]

\* the message is the name of product p, in any case, with blanks around it
IsSearchOf(m, p) == Strip(Lower(m)) = Lower(p.name)

IsTextAdd(m) == ~StartsWith(m, BTN_PREFIX) /\ is_add_to_cart_intent(Strip(Lower(m)))

IsTextView(m) ==
    /\ ~StartsWith(m, BTN_PREFIX)
    /\ ~is_add_to_cart_intent(Strip(Lower(m)))
    /\ ~is_product_search(Strip(Lower(m)))
    /\ is_view_cart_intent(Strip(Lower(m)))

ScenarioNext(sc, o, m) ==
    IF sc.stage = 0 /\ o = "handle_message" /\ \E p \in Catalog : IsSearchOf(m, p)
    THEN [stage |-> 1, p |-> Some(CHOOSE p \in Catalog : IsSearchOf(m, p)), q |-> None]
    ELSE IF sc.stage = 1 /\ o = "handle_message" /\ IsTextAdd(m)
    THEN [sc EXCEPT !.stage = 2]
    ELSE IF sc.stage = 2 /\ o = "handle_message" /\ \E q \in Catalog : IsSearchOf(m, q)
    THEN [stage |-> 3, p |-> sc.p, q |-> Some(CHOOSE q \in Catalog : IsSearchOf(m, q))]
    ELSE IF sc.stage = 3 /\ o = "handle_message" /\ m = BTN_ADD_PREFIX \o IntChars(sc.q[1].id)
    THEN [sc EXCEPT !.stage = 4]
    ELSE IF sc.stage = 4 /\ o = "handle_message" /\ (m = BTN_VIEW_CART \/ IsTextView(m))
    THEN [sc EXCEPT !.stage = 5]
    ELSE IF sc.stage = 5 /\ (o = "process_checkout" \/ (o = "handle_message" /\ m = BTN_CHECKOUT))
    THEN [sc EXCEPT !.stage = 6]
    ELSE ScenarioOff

NoResponse == [response |-> ""]

Init ==
    /\ sessions = NoSessions
    /\ solo = [u \in Users |-> NoSessions]
    /\ op = "none"
    /\ user = ""
    /\ msg = << >>
    /\ pid = None
    /\ resp = NoResponse
    /\ pre = NoSessions
    /\ interacted = {}
    /\ named = {}
    /\ paid = {}
    /\ scenario = [u \in Users |-> ScenarioStart]

\* the returned value is a product detail or an add confirmation
ProductInteraction(r) == \E p \in Catalog : r = ProductDetail(p) \/ r = AddedResponse(p)

\* the call o(u, m, p) is made when no call is pending; it returns out, and
\* the same call to the bot of u alone returns alone
Returns(o, u, m, p, out, alone) ==
    /\ sessions' = out.s
    /\ solo' = [solo EXCEPT ![u] = alone.s]
    /\ op' = o
    /\ user' = u
    /\ msg' = m
    /\ pid' = p
    /\ resp' = out.r
    /\ pre' = sessions
    /\ interacted' = IF ProductInteraction(out.r) THEN interacted \cup {u} ELSE interacted
    /\ named' = IF o = "show_products" THEN named ELSE named \cup {u}
    /\ paid' = IF CheckoutSucceeded(sessions, u, out.r) THEN paid \cup {u}
               ELSE IF ProductInteraction(out.r) THEN paid \ {u}
               ELSE paid
    /\ scenario' = [scenario EXCEPT ![u] = ScenarioNext(@, o, m)]

HandleMessage(U, M, bound) ==
    \E u \in U, m \in M :
        /\ op = "none"
        /\ TotalItems(handle_message(sessions, u, m).s) <= bound
        /\ Returns("handle_message", u, m, None,
                   handle_message(sessions, u, m), handle_message(solo[u], u, m))

HandleButtonPress(U, M, bound) ==
    \E u \in U, m \in M :
        /\ op = "none"
        /\ TotalItems(handle_button_press(sessions, u, m).s) <= bound
        /\ Returns("handle_button_press", u, m, None,
                   handle_button_press(sessions, u, m), handle_button_press(solo[u], u, m))

\* the value returned is the product or None; it is held in resp.value
FindLastSelectedProduct(U) ==
    \E u \in U :
        /\ op = "none"
        /\ Returns("find_last_selected_product", u, << >>, None,
                   Result(find_last_selected_product(sessions, u).s,
                          [value |-> find_last_selected_product(sessions, u).r]),
                   find_last_selected_product(solo[u], u))

AddProductToCart(U, P, bound) ==
    \E u \in U, p \in P :
        /\ op = "none"
        /\ TotalItems(add_product_to_cart(sessions, u, p).s) <= bound
        /\ Returns("add_product_to_cart", u, << >>, p,
                   add_product_to_cart(sessions, u, p), add_product_to_cart(solo[u], u, p))

SendCartConfirmationButtons(U) ==
    \E u \in U :
        /\ op = "none"
        /\ Returns("send_cart_confirmation_buttons", u, << >>, None,
                   send_cart_confirmation_buttons(sessions, u),
                   send_cart_confirmation_buttons(solo[u], u))

HandleProductSelection(U, Q) ==
    \E u \in U, q \in Q :
        /\ op = "none"
        /\ Returns("handle_product_selection", u, q, None,
                   handle_product_selection(sessions, u, q),
                   handle_product_selection(solo[u], u, q))

ShowProducts(U) ==
    \E u \in U :
        /\ op = "none"
        /\ Returns("show_products", u, << >>, None,
                   show_products(sessions, u), show_products(solo[u], u))

ClearCart(U) ==
    \E u \in U :
        /\ op = "none"
        /\ Returns("clear_cart", u, << >>, None,
                   clear_cart(sessions, u), clear_cart(solo[u], u))

ProcessCheckout(U) ==
    \E u \in U :
        /\ op = "none"
        /\ Returns("process_checkout", u, << >>, None,
                   process_checkout(sessions, u), process_checkout(solo[u], u))

\* the caller takes the returned value and is ready for its next call
Return ==
    /\ op # "none"
    /\ op' = "none"
    /\ user' = ""
    /\ msg' = << >>
    /\ pid' = None
    /\ resp' = NoResponse
    /\ pre' = NoSessions
    /\ UNCHANGED << sessions, solo, interacted, named, paid, scenario >>

Next ==
    \/ HandleMessage(OneUser, Messages, MaxCart)
    \/ HandleButtonPress(OneUser, ButtonMessages, MaxCart)
    \/ FindLastSelectedProduct(OneUser)
    \/ AddProductToCart(OneUser, ProductIds, MaxCart)
    \/ SendCartConfirmationButtons(OneUser)
    \/ HandleProductSelection(OneUser, Queries)
    \/ ShowProducts(OneUser)
    \/ ClearCart(OneUser)
    \/ ProcessCheckout(OneUser)
    \/ Return

Spec == Init /\ [][Next]_vars

NextTwo ==
    \/ HandleMessage(Users, MessagesTwo, MaxItems)
    \/ HandleButtonPress(Users, ButtonMessagesTwo, MaxItems)
    \/ FindLastSelectedProduct(Users)
    \/ AddProductToCart(Users, ProductIdsTwo, MaxItems)
    \/ SendCartConfirmationButtons(Users)
    \/ HandleProductSelection(Users, QueriesTwo)
    \/ ShowProducts(Users)
    \/ ClearCart(Users)
    \/ ProcessCheckout(Users)
    \/ Return

SpecTwo == Init /\ [][NextTwo]_vars

----------------------------------------------------------------------------
(* Vocabulary of the properties *)

CartOf(s, u) == IF u \in DOMAIN s THEN s[u].cart ELSE << >>

LastOf(s, u) == IF u \in DOMAIN s THEN s[u].last_product ELSE None

IsButton(m) == StartsWith(m, BTN_PREFIX)

AddButton(p) == BTN_ADD_PREFIX \o IntChars(p.id)

CatalogIds == {p.id : p \in Catalog}

ProductWithId(n) == CHOOSE p \in Catalog : p.id = n

\* free text that is dispatched as add-to-cart, as product search, as view-cart
TextAdd(m) == ~IsButton(m) /\ is_add_to_cart_intent(Strip(Lower(m)))

TextSearch(m) == ~IsButton(m) /\ ~TextAdd(m) /\ is_product_search(Strip(Lower(m)))

TextView(m) == ~IsButton(m) /\ ~TextAdd(m) /\ ~TextSearch(m) /\ is_view_cart_intent(Strip(Lower(m)))

\* a call has returned and it was handle_message(user, m)
Sent(m) == op = "handle_message" /\ msg = m

\* sum of the prices of the entries 1..n of a cart
RECURSIVE PriceSumTo(_, _)
PriceSumTo(cart, n) == IF n = 0 THEN 0 ELSE PriceSumTo(cart, n - 1) + cart[n].price

PriceSum(cart) == PriceSumTo(cart, Len(cart))

Unchanged(u) == CartOf(sessions, u) = CartOf(pre, u) /\ LastOf(sessions, u) = LastOf(pre, u)

----------------------------------------------------------------------------
(* C1 - Path equivalence of add-to-cart: in every reachable state, for     *)
(* every user whose last_product is a catalog product p, handle_message    *)
(* with a text add-to-cart phrase and handle_message with the callback     *)
(* btn_add_<p.id> return the same response and the same buttons and give   *)
(* the same sessions (same cart, same last_product).                       *)
C1_PathEquivalence ==
    \A u \in Users : \A p \in Catalog :
        LastOf(sessions, u) = Some(p) =>
            \A t \in {m \in TextMessages : TextAdd(m)} :
                LET viaText == handle_message(sessions, u, t)
                    viaButton == handle_message(sessions, u, AddButton(p))
                IN  /\ viaText.r.response = viaButton.r.response
                    /\ viaText.r.buttons = viaButton.r.buttons
                    /\ viaText.s = viaButton.s

\* a text add has just returned for a user whose last_product was Mouse, and
\* the button path from the same state gives the same result
C1_Witness ==
    /\ Sent(<<"a", "g", "r", "e", "g", "a", "r", " ", "a", "l", " ", "c", "a", "r", "r", "i", "t", "o">>)
    /\ LastOf(pre, user) = Some(AVAILABLE_PRODUCTS[2])
    /\ CartOf(pre, user) = << AVAILABLE_PRODUCTS[1] >>
    /\ resp = AddedResponse(AVAILABLE_PRODUCTS[2])
    /\ Result(sessions, resp) = handle_message(pre, user, <<"b", "t", "n", "_", "a", "d", "d", "_", "2">>)

----------------------------------------------------------------------------
(* C2 - A product id given to add-to-cart is resolved through the catalog  *)
(* only: btn_add_<id> with an id that is not a catalog id (0 and negative  *)
(* ids included) returns "no product selected" and leaves the cart and     *)
(* last_product unchanged, whatever last_product is.                       *)
C2_UnknownIdNeverAdds ==
    \A n \in (-1..5) \ CatalogIds :
        Sent(BTN_ADD_PREFIX \o IntChars(n)) =>
            /\ resp = NoProductSelected
            /\ Unchanged(user)

----------------------------------------------------------------------------
(* C3 - Cart accumulation without deduplication: a text add with a         *)
(* last_product set, and btn_add_<id> with a catalog id, append exactly    *)
(* one entry equal to the added product at the end of the user's cart:     *)
(* the length grows by 1 and the earlier entries keep value and order,     *)
(* also when the product is already in the cart.                           *)
C3_AddAppendsOne ==
    /\ \A p \in Catalog :
          (op = "handle_message" /\ TextAdd(msg) /\ LastOf(pre, user) = Some(p)) =>
              /\ CartOf(sessions, user) = Append(CartOf(pre, user), p)
              /\ resp = AddedResponse(p)
    /\ \A p \in Catalog :
          Sent(AddButton(p)) =>
              /\ CartOf(sessions, user) = Append(CartOf(pre, user), p)
              /\ resp = AddedResponse(p)
    /\ \A p \in Catalog :
          (op # "none" /\ resp = AddedResponse(p)) =>
              /\ Len(CartOf(sessions, user)) = Len(CartOf(pre, user)) + 1
              /\ SubSeq(CartOf(sessions, user), 1, Len(CartOf(pre, user))) = CartOf(pre, user)
              /\ CartOf(sessions, user)[Len(CartOf(sessions, user))] = p

\* Laptop added by text and then again by button: two Laptop entries
C3_Witness ==
    /\ Sent(<<"b", "t", "n", "_", "a", "d", "d", "_", "1">>)
    /\ CartOf(pre, user) = << AVAILABLE_PRODUCTS[1] >>
    /\ LastOf(pre, user) = Some(AVAILABLE_PRODUCTS[1])
    /\ CartOf(sessions, user) = << AVAILABLE_PRODUCTS[1], AVAILABLE_PRODUCTS[1] >>

----------------------------------------------------------------------------
(* C4 - Checkout clears state: process_checkout, or the message            *)
(* btn_checkout, on a non-empty cart returns the success outcome whose     *)
(* total is the sum of the prices of the entries held before the call,     *)
(* and afterwards the user's cart is empty and last_product is none.       *)
IsCheckout == op = "process_checkout" \/ Sent(BTN_CHECKOUT)

C4_CheckoutClears ==
    (IsCheckout /\ CartOf(pre, user) # << >>) =>
        /\ resp = CheckoutDone(PriceSum(CartOf(pre, user)))
        /\ CartOf(sessions, user) = << >>
        /\ LastOf(sessions, user) = None

\* btn_checkout with Laptop and Mouse in the cart: 1029.98 paid
C4_Witness ==
    /\ Sent(BTN_CHECKOUT)
    /\ CartOf(pre, user) = << AVAILABLE_PRODUCTS[1], AVAILABLE_PRODUCTS[2] >>
    /\ LastOf(pre, user) # None
    /\ resp.response = "[ok] Compra realizada exitosamente!\nTotal pagado: $1029.98\nGracias por tu compra!"
    /\ CartOf(sessions, user) = << >>

----------------------------------------------------------------------------
(* C5 - Empty-cart guards: with an empty cart, checkout returns the        *)
(* failure outcome and leaves the cart empty and last_product unchanged    *)
(* (the success outcome is never produced), and viewing the cart, by text  *)
(* or by btn_view_cart, returns the "empty cart" outcome whose only        *)
(* button is btn_browse.                                                   *)
IsViewCart ==
    \/ op = "send_cart_confirmation_buttons"
    \/ Sent(BTN_VIEW_CART)
    \/ (op = "handle_message" /\ TextView(msg))

C5_EmptyCartGuards ==
    CartOf(pre, user) = << >> =>
        /\ IsCheckout =>
              /\ resp = CheckoutEmpty
              /\ resp # CheckoutDone(0)
              /\ CartOf(sessions, user) = << >>
              /\ LastOf(sessions, user) = LastOf(pre, user)
        /\ IsViewCart =>
              /\ resp = EmptyCartResponse
              /\ Len(resp.buttons) = 1
              /\ resp.buttons[1].callback = BTN_BROWSE
              /\ Unchanged(user)

\* checkout refused after the cart was cleared, the selection still there
C5_Witness ==
    /\ Sent(BTN_CHECKOUT)
    /\ CartOf(pre, user) = << >>
    /\ LastOf(pre, user) = Some(AVAILABLE_PRODUCTS[1])
    /\ resp = CheckoutEmpty
    /\ LastOf(sessions, user) = Some(AVAILABLE_PRODUCTS[1])

\* the empty cart viewed by text
C5_WitnessView ==
    /\ Sent(<<"c", "a", "r", "r", "i", "t", "o">>)
    /\ CartOf(pre, user) = << >>
    /\ resp = EmptyCartResponse

----------------------------------------------------------------------------
(* C6 - Session isolation: a call for user A leaves the session of every   *)
(* other user B as it was (B has a session after the call exactly if it    *)
(* had one before, with the same cart and last_product), and in every      *)
(* interleaving of the calls of A and B each user's cart and last_product  *)
(* are those of a bot that was given that user's calls only.               *)
C6_SessionIsolation ==
    /\ op # "none" =>
          \A b \in Users \ {user} :
              /\ b \in DOMAIN sessions <=> b \in DOMAIN pre
              /\ b \in DOMAIN pre => sessions[b] = pre[b]
    /\ \A u \in Users :
          /\ CartOf(sessions, u) = CartOf(solo[u], u)
          /\ LastOf(sessions, u) = LastOf(solo[u], u)

\* u1 adds Laptop while u2 holds Mouse
C6_Witness ==
    /\ op = "handle_message"
    /\ user = "u1"
    /\ CartOf(pre, "u1") = << >>
    /\ CartOf(sessions, "u1") = << AVAILABLE_PRODUCTS[1] >>
    /\ CartOf(pre, "u2") = << AVAILABLE_PRODUCTS[2] >>
    /\ CartOf(sessions, "u2") = << AVAILABLE_PRODUCTS[2] >>

----------------------------------------------------------------------------
(* C7 - Cart summary correctness: viewing a non-empty cart reports         *)
(* item_count = number of entries, total = sum of the entry prices, and    *)
(* one line per distinct product name in order of first occurrence, with   *)
(* count = number of entries of that name and subtotal = unit price x      *)
(* count; the counts sum to item_count and the subtotals to the total;     *)
(* [Laptop, Mouse] gives 2 items and total 1029.98.                        *)
FirstOccurrences(cart) ==
    {i \in 1..Len(cart) : \A j \in 1..(i - 1) : cart[j].name # cart[i].name}

RECURSIVE Ascending(_)
Ascending(S) ==
    IF S = {} THEN << >>
    ELSE LET least == CHOOSE i \in S : \A j \in S : i <= j
         IN  << least >> \o Ascending(S \ {least})

CountOf(cart, name) == Cardinality({i \in 1..Len(cart) : cart[i].name = name})

\* the lines of the summary: name, count and subtotal of each group
SummaryLines(cart) ==
    LET first == Ascending(FirstOccurrences(cart))
    IN  [k \in 1..Len(first) |->
            [name |-> cart[first[k]].name,
             count |-> CountOf(cart, cart[first[k]].name),
             subtotal |-> cart[first[k]].price * CountOf(cart, cart[first[k]].name)]]

SummaryLineText(line) ==
    IF line.count > 1
    THEN "* " \o Text(line.name) \o " x" \o ToString(line.count) \o " - $" \o Fmt2(line.subtotal)
    ELSE "* " \o Text(line.name) \o " - $" \o Fmt2(line.subtotal)

SummaryText(cart) ==
    LET lines == SummaryLines(cart)
    IN  "[cart] Tu carrito (" \o ToString(Len(cart)) \o " items):\n"
            \o JoinLines([k \in 1..Len(lines) |-> SummaryLineText(lines[k])])
            \o "\n\nTotal: $" \o Fmt2(PriceSum(cart))

RECURSIVE SumField(_, _, _)
SumField(lines, n, f) == IF n = 0 THEN 0 ELSE SumField(lines, n - 1, f) + lines[n][f]

C7_SummaryCorrect ==
    (IsViewCart /\ CartOf(pre, user) # << >>) =>
        LET cart == CartOf(pre, user)
            lines == SummaryLines(cart)
        IN  /\ resp.response = SummaryText(cart)
            /\ SumField(lines, Len(lines), "count") = Len(cart)
            /\ SumField(lines, Len(lines), "subtotal") = PriceSum(cart)
            /\ cart = << AVAILABLE_PRODUCTS[1], AVAILABLE_PRODUCTS[2] >> =>
                  resp.response = "[cart] Tu carrito (2 items):\n* Laptop - $999.99\n* Mouse - $29.99\n\nTotal: $1029.98"

\* Laptop, Mouse, Laptop viewed: two lines, Laptop first with count 2
C7_Witness ==
    /\ Sent(<<"c", "a", "r", "r", "i", "t", "o">>)
    /\ CartOf(pre, user) = << AVAILABLE_PRODUCTS[1], AVAILABLE_PRODUCTS[2], AVAILABLE_PRODUCTS[1] >>
    /\ resp.response = "[cart] Tu carrito (3 items):\n* Laptop x2 - $1999.98\n* Mouse - $29.99\n\nTotal: $2029.97"

----------------------------------------------------------------------------
(* C8 - Dispatcher priority for free text: a non-button message goes to    *)
(* the first matching of add-to-cart, product-search, view-cart.  With an  *)
(* add phrase in it (also next to a product name or a cart phrase) it adds *)
(* the current last_product, or returns "no product selected", and never   *)
(* changes last_product; with a product name and no add phrase (also next  *)
(* to a cart phrase) it is a product search; with a cart phrase only it    *)
(* shows the cart.                                                         *)
HasAddPhrase(m) == is_add_to_cart_intent(Strip(Lower(m)))

HasProductName(m) == is_product_search(Strip(Lower(m)))

HasCartPhrase(m) == is_view_cart_intent(Strip(Lower(m)))

C8_DispatchPriority ==
    (op = "handle_message" /\ ~IsButton(msg)) =>
        /\ HasAddPhrase(msg) =>
              /\ LastOf(sessions, user) = LastOf(pre, user)
              /\ IF LastOf(pre, user) = None
                 THEN resp = NoProductSelected /\ CartOf(sessions, user) = CartOf(pre, user)
                 ELSE /\ resp = AddedResponse(LastOf(pre, user)[1])
                      /\ CartOf(sessions, user) = Append(CartOf(pre, user), LastOf(pre, user)[1])
        /\ (~HasAddPhrase(msg) /\ HasProductName(msg)) =>
              /\ \E p \in Catalog : resp = ProductDetail(p) /\ LastOf(sessions, user) = Some(p)
              /\ CartOf(sessions, user) = CartOf(pre, user)
        /\ (~HasAddPhrase(msg) /\ ~HasProductName(msg) /\ HasCartPhrase(msg)) =>
              /\ resp = send_cart_confirmation_buttons(pre, user).r
              /\ Unchanged(user)
        /\ (~HasAddPhrase(msg) /\ ~HasProductName(msg) /\ ~HasCartPhrase(msg)) =>
              /\ resp = NotUnderstood
              /\ Unchanged(user)

\* "Agregar laptop" sent with Mouse selected: Mouse is added, Laptop is not selected
C8_Witness ==
    /\ Sent(<<"A", "g", "r", "e", "g", "a", "r", " ", "l", "a", "p", "t", "o", "p">>)
    /\ LastOf(pre, user) = Some(AVAILABLE_PRODUCTS[2])
    /\ resp = AddedResponse(AVAILABLE_PRODUCTS[2])
    /\ LastOf(sessions, user) = Some(AVAILABLE_PRODUCTS[2])

\* "mouse carrito" is a product search
C8_WitnessSearch ==
    /\ Sent(<<"m", "o", "u", "s", "e", " ", "c", "a", "r", "r", "i", "t", "o">>)
    /\ resp = ProductDetail(AVAILABLE_PRODUCTS[2])

----------------------------------------------------------------------------
(* C9 - Last-selected lookup: find_last_selected_product returns none for  *)
(* a user that has had no product interaction; after a product-search      *)
(* message that matches product p it returns p, again p when repeated, and *)
(* its value is not changed by any call that is not a product search, a    *)
(* successful add or a successful checkout.                                *)
Lookup(s, u) == find_last_selected_product(s, u).r

C9_LastSelectedLookup ==
    /\ \A u \in Users : u \notin interacted => Lookup(sessions, u) = None
    /\ (op = "handle_message" /\ TextSearch(msg)) =>
          \E p \in Catalog :
              /\ Contains(Lower(p.name), Strip(Lower(msg)))
              /\ resp = ProductDetail(p)
              /\ Lookup(sessions, user) = Some(p)
              /\ Lookup(find_last_selected_product(sessions, user).s, user) = Some(p)
    /\ op = "find_last_selected_product" =>
          /\ resp = [value |-> LastOf(pre, user)]
          /\ Lookup(sessions, user) = resp.value
    /\ (/\ op # "none"
        /\ ~ProductInteraction(resp)
        /\ resp # CheckoutDone(PriceSum(CartOf(pre, user)))) =>
          Lookup(sessions, user) = Lookup(pre, user)

\* the lookup returns Mouse, selected by an earlier search, the cart still empty
C9_Witness ==
    /\ op = "find_last_selected_product"
    /\ resp = [value |-> Some(AVAILABLE_PRODUCTS[2])]
    /\ CartOf(sessions, user) = << >>
    /\ user \in interacted

----------------------------------------------------------------------------
(* C10 - Button error outcomes: a message that starts with btn_ and is     *)
(* none of btn_add_<...>, btn_view_cart, btn_browse, btn_clear_cart,       *)
(* btn_checkout returns "button not recognized"; a message btn_add_<x>     *)
(* whose id part x is not numeric (empty included) returns "button         *)
(* error"; in both cases no product is added and the cart and last_product *)
(* are unchanged.                                                          *)
IsNumeric(x) == IsDigits(x) \/ (x # << >> /\ Head(x) = "-" /\ IsDigits(Tail(x)))

IdPart(m) == SubSeq(m, Len(BTN_ADD_PREFIX) + 1, Len(m))

C10_ButtonErrors ==
    (op = "handle_message" /\ IsButton(msg)) =>
        /\ (/\ ~StartsWith(msg, BTN_ADD_PREFIX)
            /\ msg \notin {BTN_VIEW_CART, BTN_BROWSE, BTN_CLEAR_CART, BTN_CHECKOUT}) =>
              resp = ButtonNotRecognized /\ Unchanged(user)
        /\ (StartsWith(msg, BTN_ADD_PREFIX) /\ ~IsNumeric(IdPart(msg))) =>
              resp = ButtonError /\ Unchanged(user)

----------------------------------------------------------------------------
(* C11 - End-to-end shopping sequence: for a new user and catalog products *)
(* p and q, the calls search p, text add, search q, btn_add_<q.id>, view   *)
(* cart, checkout return in order: the detail of p with the add button of  *)
(* p.id; the confirmation, cart = [p]; the detail of q; the confirmation,  *)
(* cart = [p, q]; a summary of 2 items with total price(p) + price(q); the *)
(* checkout success with the same total, the cart empty afterwards         *)
(* (1029.98 for Laptop and Mouse).                                         *)
TwoItemLines(p, q) ==
    IF p.name = q.name
    THEN "* " \o Text(p.name) \o " x2 - $" \o Fmt2(2 * p.price)
    ELSE "* " \o Text(p.name) \o " - $" \o Fmt2(p.price) \o "\n"
             \o "* " \o Text(q.name) \o " - $" \o Fmt2(q.price)

C11_EndToEnd ==
    \A u \in Users :
        LET sc == scenario[u]
            p == sc.p[1]
            q == sc.q[1]
            returned == op # "none" /\ user = u
        IN  /\ sc.stage = 1 =>
                  /\ CartOf(sessions, u) = << >>
                  /\ returned => resp = ProductDetail(p) /\ resp.buttons[1].callback = AddButton(p)
            /\ sc.stage = 2 =>
                  /\ CartOf(sessions, u) = << p >>
                  /\ returned => resp = AddedResponse(p)
            /\ sc.stage = 3 =>
                  /\ CartOf(sessions, u) = << p >>
                  /\ returned => resp = ProductDetail(q)
            /\ sc.stage = 4 =>
                  /\ CartOf(sessions, u) = << p, q >>
                  /\ returned => resp = AddedResponse(q)
            /\ sc.stage = 5 =>
                  /\ CartOf(sessions, u) = << p, q >>
                  /\ returned =>
                        resp.response = "[cart] Tu carrito (2 items):\n" \o TwoItemLines(p, q)
                                            \o "\n\nTotal: $" \o Fmt2(p.price + q.price)
            /\ sc.stage = 6 =>
                  /\ CartOf(sessions, u) = << >>
                  /\ returned =>
                        /\ resp = CheckoutDone(p.price + q.price)
                        /\ (p.id = 1 /\ q.id = 2) =>
                              resp.response = "[ok] Compra realizada exitosamente!\nTotal pagado: $1029.98\nGracias por tu compra!"

\* the sixth call of the sequence for Laptop and Mouse has returned
C11_Witness ==
    /\ scenario["u1"].stage = 6
    /\ scenario["u1"].p = Some(AVAILABLE_PRODUCTS[1])
    /\ scenario["u1"].q = Some(AVAILABLE_PRODUCTS[2])
    /\ op # "none"
    /\ user = "u1"
    /\ resp = CheckoutDone(102998)

----------------------------------------------------------------------------
(* C12 - Session data invariants: in every reachable state every entry of  *)
(* every cart has the id, name and price of one catalog product, and every *)
(* last_product is none or a catalog product.  (The catalog is the         *)
(* constant AVAILABLE_PRODUCTS: no method assigns to it.)                  *)
C12_SessionData ==
    \A u \in DOMAIN sessions :
        /\ \A k \in 1..Len(sessions[u].cart) :
              \E c \in Catalog :
                  /\ sessions[u].cart[k].id = c.id
                  /\ sessions[u].cart[k].name = c.name
                  /\ sessions[u].cart[k].price = c.price
                  /\ DOMAIN sessions[u].cart[k] = {"id", "name", "price"}
        /\ \/ sessions[u].last_product = None
           \/ \E c \in Catalog : sessions[u].last_product = Some(c)

\* a cart of three entries, the last selection not the last entry
C12_Witness ==
    /\ op = "handle_message"
    /\ Len(CartOf(sessions, user)) = 3
    /\ LastOf(sessions, user) = Some(AVAILABLE_PRODUCTS[4])
    /\ CartOf(sessions, user)[3] = AVAILABLE_PRODUCTS[2]

----------------------------------------------------------------------------
(* C13 - Path equivalence of view-cart: in every reachable state the text  *)
(* messages "carrito", "cart", "ver carrito", "view cart" and the message  *)
(* btn_view_cart return the same response and the same buttons, and leave  *)
(* the cart and last_product of the user unchanged.                        *)
ViewTexts == { <<"c", "a", "r", "r", "i", "t", "o">>, <<"c", "a", "r", "t">>, <<"v", "e", "r", " ", "c", "a", "r", "r", "i", "t", "o">>, <<"v", "i", "e", "w", " ", "c", "a", "r", "t">> }

C13_ViewPathEquivalence ==
    \A u \in Users : \A t \in ViewTexts :
        LET viaText == handle_message(sessions, u, t)
            viaButton == handle_message(sessions, u, BTN_VIEW_CART)
        IN  /\ viaText.r.response = viaButton.r.response
            /\ viaText.r.buttons = viaButton.r.buttons
            /\ CartOf(viaText.s, u) = CartOf(sessions, u)
            /\ LastOf(viaText.s, u) = LastOf(sessions, u)
            /\ CartOf(viaButton.s, u) = CartOf(sessions, u)
            /\ LastOf(viaButton.s, u) = LastOf(sessions, u)

\* "view cart" has returned the summary of two Mouse entries, as btn_view_cart does
C13_Witness ==
    /\ Sent(<<"v", "i", "e", "w", " ", "c", "a", "r", "t">>)
    /\ CartOf(pre, user) = << AVAILABLE_PRODUCTS[2], AVAILABLE_PRODUCTS[2] >>
    /\ Result(sessions, resp) = handle_message(pre, user, BTN_VIEW_CART)
    /\ sessions = pre

----------------------------------------------------------------------------
(* C14 - Product search selection: for free text with no add phrase that   *)
(* contains a catalog product name, the product selected is the first in   *)
(* catalog order (Laptop, Mouse, Keyboard, Monitor) whose name occurs in    *)
(* the message, wherever the names stand in it; last_product becomes that  *)
(* product, the cart is unchanged and the add button of the response       *)
(* carries btn_add_<id> of that product.                                   *)
NamesIn(m) ==
    {i \in 1..Len(AVAILABLE_PRODUCTS) : Contains(Lower(AVAILABLE_PRODUCTS[i].name), Lower(m))}

FirstNamed(m) == AVAILABLE_PRODUCTS[CHOOSE i \in NamesIn(m) : \A j \in NamesIn(m) : i <= j]

C14_SearchSelectsFirstInCatalog ==
    (op = "handle_message" /\ ~IsButton(msg) /\ ~HasAddPhrase(msg) /\ NamesIn(msg) # {}) =>
        /\ resp = ProductDetail(FirstNamed(msg))
        /\ LastOf(sessions, user) = Some(FirstNamed(msg))
        /\ CartOf(sessions, user) = CartOf(pre, user)
        /\ resp.buttons[1].callback = BTN_ADD_PREFIX \o IntChars(FirstNamed(msg).id)

\* "mouse laptop" selects Laptop although Mouse stands first, the cart untouched
C14_Witness ==
    /\ Sent(<<"m", "o", "u", "s", "e", " ", "l", "a", "p", "t", "o", "p">>)
    /\ resp = ProductDetail(AVAILABLE_PRODUCTS[1])
    /\ LastOf(pre, user) = Some(AVAILABLE_PRODUCTS[3])
    /\ LastOf(sessions, user) = Some(AVAILABLE_PRODUCTS[1])
    /\ CartOf(sessions, user) = << AVAILABLE_PRODUCTS[3] >>

----------------------------------------------------------------------------
(* C15 - A successful add makes the added product the last-selected one:   *)
(* after btn_add_<q.id> for catalog product q, last_product is q whatever  *)
(* was searched before, and a text add sent next appends q.                *)
C15_AddSelects ==
    \A q \in Catalog :
        Sent(AddButton(q)) =>
            /\ resp = AddedResponse(q)
            /\ LastOf(sessions, user) = Some(q)
            /\ \A t \in {m \in TextMessages : TextAdd(m)} :
                  LET next == handle_message(sessions, user, t)
                  IN  /\ next.r = AddedResponse(q)
                      /\ CartOf(next.s, user) = Append(CartOf(sessions, user), q)
                      /\ LastOf(next.s, user) = Some(q)

\* btn_add_2 pressed while Laptop was the selection: Mouse is the selection now
C15_Witness ==
    /\ Sent(<<"b", "t", "n", "_", "a", "d", "d", "_", "2">>)
    /\ LastOf(pre, user) = Some(AVAILABLE_PRODUCTS[1])
    /\ CartOf(pre, user) = << >>
    /\ LastOf(sessions, user) = Some(AVAILABLE_PRODUCTS[2])
    /\ CartOf(sessions, user) = << AVAILABLE_PRODUCTS[2] >>

----------------------------------------------------------------------------
(* C16 - clear_cart, or the message btn_clear_cart, succeeds in every      *)
(* state, the empty cart included: afterwards the cart is empty and        *)
(* last_product is as before, so a text add sent next adds the product     *)
(* selected before; clearing again changes nothing.                        *)
IsClear == op = "clear_cart" \/ Sent(BTN_CLEAR_CART)

C16_ClearCart ==
    IsClear =>
        /\ resp = CartCleared
        /\ user \in DOMAIN sessions
        /\ CartOf(sessions, user) = << >>
        /\ LastOf(sessions, user) = LastOf(pre, user)
        /\ \A p \in Catalog :
              LastOf(pre, user) = Some(p) =>
                  \A t \in {m \in TextMessages : TextAdd(m)} :
                      /\ handle_message(sessions, user, t).r = AddedResponse(p)
                      /\ CartOf(handle_message(sessions, user, t).s, user) = << p >>
        /\ clear_cart(sessions, user) = Result(sessions, CartCleared)
        /\ handle_message(sessions, user, BTN_CLEAR_CART) = Result(sessions, CartCleared)

\* a cart of two entries cleared, Keyboard still selected
C16_Witness ==
    /\ Sent(BTN_CLEAR_CART)
    /\ Len(CartOf(pre, user)) = 2
    /\ LastOf(pre, user) = Some(AVAILABLE_PRODUCTS[3])
    /\ CartOf(sessions, user) = << >>
    /\ LastOf(sessions, user) = Some(AVAILABLE_PRODUCTS[3])

\* the empty cart of a new user cleared
C16_WitnessEmpty ==
    /\ op = "clear_cart"
    /\ user \notin DOMAIN pre
    /\ resp = CartCleared

----------------------------------------------------------------------------
(* C17 - Session lifecycle: a user has a session exactly from the first    *)
(* call naming the user of handle_message or of a method that works on the *)
(* session (show_products called directly does not); a new session has an  *)
(* empty cart and no last_product whatever the other sessions hold; a      *)
(* later call finds the session and does not reset it; no call removes a   *)
(* session, so the set of users with a session never shrinks.              *)
C17_State ==
    /\ DOMAIN sessions = named
    /\ \A u \in Users \ DOMAIN sessions :
          /\ get_or_create_session(sessions, u)[u] = NewSession
          /\ \A v \in DOMAIN sessions : get_or_create_session(sessions, u)[v] = sessions[v]
    /\ \A u \in DOMAIN sessions : get_or_create_session(sessions, u) = sessions
    /\ (op # "none" /\ user \notin DOMAIN pre /\ op # "show_products") =>
          /\ user \in DOMAIN sessions
          /\ \/ CartOf(sessions, user) = << >>
             \/ \E p \in Catalog : resp = AddedResponse(p) /\ CartOf(sessions, user) = << p >>
          /\ \/ LastOf(sessions, user) = None
             \/ \E p \in Catalog : /\ resp \in {ProductDetail(p), AddedResponse(p)}
                                   /\ LastOf(sessions, user) = Some(p)
    /\ (op = "show_products" /\ user \notin DOMAIN pre) => user \notin DOMAIN sessions
    /\ op # "none" => DOMAIN pre \subseteq DOMAIN sessions

C17_SessionLifecycle ==
    /\ []C17_State
    /\ [][DOMAIN sessions \subseteq DOMAIN sessions']_vars

\* the first call of u2 creates an empty session while u1 holds a cart
C17_Witness ==
    /\ op = "handle_message"
    /\ user = "u2"
    /\ "u2" \notin DOMAIN pre
    /\ CartOf(pre, "u1") # << >>
    /\ LastOf(pre, "u1") # None
    /\ "u2" \in DOMAIN sessions
    /\ sessions["u2"] = NewSession

----------------------------------------------------------------------------
(* C18 - Offered buttons are valid: every callback of a response returned  *)
(* by handle_message, sent back as the next message of the same user, is   *)
(* recognised (never "button not recognized" nor "button error"); an       *)
(* offered btn_add_<id> names a catalog product and pressing it adds that  *)
(* product; btn_checkout is offered with a non-empty cart only, so         *)
(* pressing it succeeds.                                                   *)
C18_OfferedButtonsValid ==
    (op = "handle_message" /\ "buttons" \in DOMAIN resp) =>
        \A k \in 1..Len(resp.buttons) :
            LET callback == resp.buttons[k].callback
                pressed == handle_message(sessions, user, callback)
            IN  /\ pressed.r # ButtonNotRecognized
                /\ pressed.r # ButtonError
                /\ StartsWith(callback, BTN_ADD_PREFIX) =>
                      \E p \in Catalog :
                          /\ callback = AddButton(p)
                          /\ pressed.r = AddedResponse(p)
                          /\ CartOf(pressed.s, user) = Append(CartOf(sessions, user), p)
                /\ callback = BTN_CHECKOUT =>
                      /\ CartOf(sessions, user) # << >>
                      /\ pressed.r = CheckoutDone(PriceSum(CartOf(sessions, user)))
                      /\ CartOf(pressed.s, user) = << >>

\* the cart summary offers btn_checkout, and the cart holds an entry
C18_Witness ==
    /\ Sent(BTN_VIEW_CART)
    /\ resp.buttons[1].callback = BTN_CHECKOUT
    /\ CartOf(sessions, user) = << AVAILABLE_PRODUCTS[4] >>

\* the product list offers the add buttons of the four products
C18_WitnessBrowse ==
    /\ Sent(BTN_BROWSE)
    /\ Len(resp.buttons) = 4
    /\ resp.buttons[4].callback = <<"b", "t", "n", "_", "a", "d", "d", "_", "4">>

----------------------------------------------------------------------------
(* C19 - Cart step shape: after any single call the cart of every user is  *)
(* the cart before the call, or that cart with one catalog product         *)
(* appended, or empty; no call removes one entry, reorders or changes      *)
(* entries, or appends more than one.                                      *)
C19_CartStepShape ==
    op # "none" =>
        \A u \in Users :
            \/ CartOf(sessions, u) = CartOf(pre, u)
            \/ \E p \in Catalog : CartOf(sessions, u) = Append(CartOf(pre, u), p)
            \/ CartOf(sessions, u) = << >>

\* a third entry appended to a cart of two
C19_Witness ==
    /\ op = "handle_message"
    /\ Len(CartOf(pre, user)) = 2
    /\ Len(CartOf(sessions, user)) = 3
    /\ SubSeq(CartOf(sessions, user), 1, 2) = CartOf(pre, user)

\* a cart of three emptied in one call
C19_WitnessEmptied ==
    /\ op # "none"
    /\ Len(CartOf(pre, user)) = 3
    /\ CartOf(sessions, user) = << >>

----------------------------------------------------------------------------
(* C20 - No selection survives checkout: from a successful checkout of a   *)
(* user until that user's next matching product search or successful add,  *)
(* the cart is empty and every text add-to-cart returns "no product        *)
(* selected" and leaves it empty; clearing the cart does not have this     *)
(* effect.                                                                 *)
C20_NoSelectionAfterCheckout ==
    /\ \A u \in paid :
          /\ CartOf(sessions, u) = << >>
          /\ \A t \in {m \in TextMessages : TextAdd(m)} :
                /\ handle_message(sessions, u, t).r = NoProductSelected
                /\ CartOf(handle_message(sessions, u, t).s, u) = << >>
    /\ (op = "handle_message" /\ TextAdd(msg) /\ user \in paid) =>
          /\ resp = NoProductSelected
          /\ CartOf(sessions, user) = << >>
    /\ (IsClear /\ LastOf(pre, user) # None) =>
          \A t \in {m \in TextMessages : TextAdd(m)} :
              handle_message(sessions, user, t).r = AddedResponse(LastOf(pre, user)[1])

\* a text add refused after a checkout
C20_Witness ==
    /\ Sent(<<"a", "g", "r", "e", "g", "a", "r", " ", "a", "l", " ", "c", "a", "r", "r", "i", "t", "o">>)
    /\ user \in paid
    /\ user \in interacted
    /\ resp = NoProductSelected
    /\ CartOf(sessions, user) = << >>

----------------------------------------------------------------------------
(* C21 - Read-only messages: a text routed to the cart view,               *)
(* "btn_view_cart", "btn_browse" and a free text that matches no intent    *)
(* leave the cart and last_product of every session as they were; the      *)
(* only state effect is a new empty session for a user without one. A text *)
(* that matches no intent returns "No entiendo" with no buttons. The same  *)
(* holds for the direct calls of the cart view and of the product list.    *)
NoIntent(m) == ~IsButton(m) /\ ~TextAdd(m) /\ ~TextSearch(m) /\ ~TextView(m)

ReadOnlyMessage(m) ==
    \/ m = BTN_VIEW_CART
    \/ m = BTN_BROWSE
    \/ TextView(m)
    \/ NoIntent(m)

LazyCreationOnly(before, after, u) ==
    /\ DOMAIN after = DOMAIN before \cup {u}
    /\ \A v \in DOMAIN before : after[v] = before[v]
    /\ u \notin DOMAIN before => after[u] = NewSession

C21_ReadOnlyMessages ==
    /\ (op = "handle_message" /\ ReadOnlyMessage(msg)) =>
          /\ LazyCreationOnly(pre, sessions, user)
          /\ NoIntent(msg) => (resp = NotUnderstood /\ DOMAIN resp = {"response"})
    /\ (op = "handle_button_press" /\ msg \in {BTN_VIEW_CART, BTN_BROWSE}) =>
          LazyCreationOnly(pre, sessions, user)
    /\ op = "send_cart_confirmation_buttons" => LazyCreationOnly(pre, sessions, user)
    /\ op = "show_products" => sessions = pre

\* the cart is viewed by text while it holds an entry and a selection is set
C21_Witness ==
    /\ Sent(<<"c", "a", "r", "r", "i", "t", "o">>)
    /\ CartOf(pre, user) # << >>
    /\ LastOf(pre, user) # None
    /\ sessions = pre
    /\ "buttons" \in DOMAIN resp

\* a text without intent is the first message of u2 while u1 holds a cart
C21_WitnessNoIntent ==
    /\ Sent(<<"h", "o", "l", "a">>)
    /\ user = "u2"
    /\ "u2" \notin DOMAIN pre
    /\ CartOf(pre, "u1") # << >>
    /\ resp = NotUnderstood
    /\ sessions["u2"] = NewSession

\* the product list is shown by button while a selection is set
C21_WitnessBrowse ==
    /\ Sent(BTN_BROWSE)
    /\ LastOf(pre, user) # None
    /\ sessions = pre

----------------------------------------------------------------------------
(* C22 - "Product not found" is unreachable through handle_message: a text *)
(* routed to the product selection contains a catalog name, so the lookup  *)
(* finds a product, the product detail is returned and last_product is set *)
(* to it. Only a direct call of handle_product_selection returns "product  *)
(* not found", exactly when the query contains no catalog name, and then   *)
(* the cart and last_product are as before the call.                       *)
C22_ProductNotFoundUnreachable ==
    /\ (op # "none" /\ op # "handle_product_selection") => resp # ProductNotFound
    /\ (op = "handle_message" /\ TextSearch(msg)) =>
          /\ NamesIn(msg) # {}
          /\ \E p \in Catalog : /\ resp = ProductDetail(p)
                                /\ LastOf(sessions, user) = Some(p)
    /\ op = "handle_product_selection" =>
          /\ resp = ProductNotFound <=> NamesIn(msg) = {}
          /\ resp = ProductNotFound =>
                /\ Unchanged(user)
                /\ LazyCreationOnly(pre, sessions, user)

\* a direct call with a query without catalog name, cart and selection set
C22_Witness ==
    /\ op = "handle_product_selection"
    /\ msg = <<"h", "o", "l", "a">>
    /\ resp = ProductNotFound
    /\ CartOf(pre, user) # << >>
    /\ LastOf(pre, user) # None
    /\ sessions = pre

\* a text with a catalog name and a cart phrase is routed to the selection
C22_WitnessRouted ==
    /\ Sent(<<"m", "o", "u", "s", "e", " ", "c", "a", "r", "r", "i", "t", "o">>)
    /\ resp = ProductDetail(AVAILABLE_PRODUCTS[2])
    /\ LastOf(pre, user) # Some(AVAILABLE_PRODUCTS[2])
    /\ LastOf(sessions, user) = Some(AVAILABLE_PRODUCTS[2])

====
